---- MODULE Spec2Model ----
(***************************************************************************)
(* Model of the Room durable object of src/api/room.ts: the persisted      *)
(* roomData record, the in-memory sessions map, the critical sections run  *)
(* under state.blockConcurrencyWhile, and the broadcast fan-out.           *)
(*                                                                         *)
(* Every request, channel open, channel message and channel close is a     *)
(* handler (a task).  A handler enters its blockConcurrencyWhile callback  *)
(* by reading the record into its own copy (storage.get), changes the      *)
(* copy, writes it back (storage.put) and broadcasts.  The /initialize,    *)
(* /join and PUT /settings handlers first await request.json(), so several *)
(* of them can be in progress before their callbacks run; handleSession    *)
(* and the channel listeners call blockConcurrencyWhile at once.           *)
(***************************************************************************)
EXTENDS Integers, Sequences, FiniteSets, TLC

\* ---------------------------------------------------------------- bounds
MaxOps == 3          \* requests and channel events in one behaviour
MaxInFlight == 2     \* handlers in progress at the same time
MaxSessions == 2     \* channels opened in one behaviour
MaxFailed == 8       \* client attempts in a row that fail in one behaviour

NameOrder == <<"A", "B", "C">>
Names == {NameOrder[k] : k \in DOMAIN NameOrder}
Keys == {"x", "y"}
RoomKey == "K"
Tasks == 1..MaxInFlight
SessIds == 1..MaxSessions

\* ------------------------------------------------------------- data model
\* settings objects: a mapping from some of the keys to values
Partials == {[k \in {"x"} |-> 1], [k \in {"x"} |-> 2], [k \in {"y"} |-> 1]}
EmptyMap == [k \in {} |-> 0]

\* the record the constructor stores when none exists
EmptyRoom ==
  [key |-> "", users |-> <<>>, moderator |-> "",
   connectedUsers |-> EmptyMap, settings |-> EmptyMap]

Range(s) == {s[k] : k \in DOMAIN s}

\* users.includes(name)
Includes(users, name) == \E k \in DOMAIN users : users[k] = name

\* a mutant of PushIfAbsent: the name is pushed without the includes test
PushAlways(users, name) == Append(users, name)

\* if (!users.includes(name)) users.push(name)
PushIfAbsent(users, name) ==
  IF Includes(users, name) THEN users ELSE Append(users, name)

\* connectedUsers[name] = value
SetConnected(cu, name, value) ==
  [n \in (DOMAIN cu) \cup {name} |-> IF n = name THEN value ELSE cu[n]]

\* truthiness of connectedUsers[name]
IsConnected(cu, name) == name \in DOMAIN cu /\ cu[name]

\* a mutant of FilterConnected: the list is not filtered
FilterConnectedAll(users, cu) == users

\* users.filter(user => connectedUsers[user])
FilterConnected(users, cu) ==
  SelectSeq(users, LAMBDA u : IsConnected(cu, u))

\* a mutant of MergeSettings: the update replaces the whole object
MergeSettingsReplace(settings, partial) == partial

\* { ...roomData.settings, ...settings }
MergeSettings(settings, partial) ==
  [k \in (DOMAIN settings) \cup (DOMAIN partial) |->
     IF k \in DOMAIN partial THEN partial[k] ELSE settings[k]]

\* a mutant of NextModerator: the last connected user is promoted
NextModeratorLast(candidates) == candidates[Len(candidates)]

\* connectedUsers[0] of the filtered list
NextModerator(candidates) == candidates[1]

\* ------------------------------------------------------------------ state
VARIABLES
  store,       \* the value under 'roomData' in state.storage
  sessions,    \* this.sessions, in insertion order: <<[ws, userName]>>
  opened,      \* number of channels accepted so far
  listening,   \* channels whose message/close listeners are attached
  broken,      \* channels whose send() throws
  tasks,       \* the handlers in progress
  inbox,       \* what each channel was sent, in order
  nops,        \* number of events so far
  nnames,      \* number of distinct display names seen so far
  members,     \* the names the completed writes have admitted to the room
  response     \* what the handler that finished last returned and did

vars ==
  <<store, sessions, opened, listening, broken, tasks, inbox, nops, nnames,
    members, response>>

\* the browser client of one user
VARIABLES
  activeSocket,       \* "null", or the readyState of the socket it holds
  reconnectAttempts,  \* the module variable of that name
  timer,              \* delay of the pending setTimeout in ms, 0 if none
  disconnected,       \* the 'disconnected' event has been fired
  failed              \* attempts in a row that closed without opening

cvars == <<activeSocket, reconnectAttempts, timer, disconnected, failed>>

\* the client module as loaded: no socket, no timeout pending
ClientInit ==
  /\ activeSocket = "null"
  /\ reconnectAttempts = 0
  /\ timer = 0
  /\ disconnected = FALSE
  /\ failed = 0

NoSettings == EmptyMap

IdleTask ==
  [op |-> "none", name |-> "", ws |-> 0, arg |-> NoSettings, pc |-> "idle",
   read |-> EmptyRoom, roomData |-> EmptyRoom, status |-> 0, nput |-> 0,
   sent |-> <<>>, nfail |-> 0]

NoResponse ==
  [op |-> "none", name |-> "", status |-> 0, nput |-> 0, sent |-> <<>>,
   nfail |-> 0, room |-> EmptyRoom]

\* pcs of a handler that is inside its blockConcurrencyWhile callback;
\* "hung" is a callback whose await of storage.get or storage.put never
\* settles
SectionPcs == {"run", "bcast", "moderator", "bcast2", "hung"}

InSection(t) == t.pc \in SectionPcs

\* some callback of blockConcurrencyWhile is running
GateHeld == \E i \in Tasks : InSection(tasks[i])

\* a mutant of CanEnter: the callback starts although another one is running
CanEnterNoExclusion(i) == tasks[i].pc \in {"idle", "parsing"}

\* blockConcurrencyWhile starts a callback only while no other one runs
CanEnter(i) == tasks[i].pc \in {"idle", "parsing"} /\ ~GateHeld

\* ------------------------------------------------------------- broadcast
Message(type, name, isConnected, roomData) ==
  [type |-> type, name |-> name, isConnected |-> isConnected,
   gate |-> GateHeld, roomData |-> roomData]

\* webSocket.send(json) on a channel that accepts it
Deliver(box, ws, msg) == [box EXCEPT ![ws] = Append(@, msg)]

RECURSIVE BroadcastNoCatchFrom(_, _, _, _, _)
BroadcastNoCatchFrom(k, sess, brk, box, msg) ==
  IF k > Len(sess) THEN [inbox |-> box, nfail |-> 0, threw |-> FALSE]
  ELSE IF sess[k].ws \in brk THEN [inbox |-> box, nfail |-> 1, threw |-> TRUE]
  ELSE BroadcastNoCatchFrom(k + 1, sess, brk, Deliver(box, sess[k].ws, msg), msg)

\* a mutant of Broadcast: a failing send ends the loop and reaches the caller
BroadcastNoCatch(sess, brk, box, msg) ==
  BroadcastNoCatchFrom(1, sess, brk, box, msg)

RECURSIVE BroadcastFrom(_, _, _, _, _)
BroadcastFrom(k, sess, brk, box, msg) ==
  IF k > Len(sess) THEN [inbox |-> box, nfail |-> 0, threw |-> FALSE]
  ELSE IF sess[k].ws \in brk
    THEN LET rest == BroadcastFrom(k + 1, sess, brk, box, msg)
         IN  [rest EXCEPT !.nfail = @ + 1]
    ELSE BroadcastFrom(k + 1, sess, brk, Deliver(box, sess[k].ws, msg), msg)

\* broadcast(message): send to every session, ignoring the sends that throw
Broadcast(sess, brk, box, msg) == BroadcastFrom(1, sess, brk, box, msg)

\* ------------------------------------------------------------------ Init
\* What state.storage may hold when the object is activated: nothing, a
\* room an earlier activation created, or a room stored before the
\* connectedUsers field existed.
Absent == [absent |-> TRUE]

LegacyRoom ==
  [key |-> RoomKey, users |-> <<"A", "B">>, moderator |-> "A",
   settings |-> EmptyMap]

PersistedRecords ==
  {Absent,
   [key |-> RoomKey, users |-> <<"A">>, moderator |-> "A",
    connectedUsers |-> [n \in {"A"} |-> TRUE], settings |-> EmptyMap],
   LegacyRoom}

\* connectedUsers = {}; for (user of users) connectedUsers[user] = false
Backfill(users) == [n \in Range(users) |-> FALSE]

\* if (!roomData.connectedUsers) { ...backfill... }: only a record without
\* the whole map is changed
Reconcile(roomData) ==
  IF "connectedUsers" \notin DOMAIN roomData
    THEN [key |-> roomData.key, users |-> roomData.users,
          moderator |-> roomData.moderator,
          connectedUsers |-> Backfill(roomData.users),
          settings |-> roomData.settings]
    ELSE roomData

\* the record the constructor leaves in state.storage
Constructor(persisted) ==
  IF persisted = Absent THEN EmptyRoom ELSE Reconcile(persisted)

\* the state after construction: no sessions, no handler in progress
Activated(persisted) ==
  /\ store = Constructor(persisted)
  /\ nnames = Cardinality(Range(Constructor(persisted).users))
  /\ members = Range(Constructor(persisted).users)
  /\ sessions = <<>>
  /\ opened = 0
  /\ listening = {}
  /\ broken = {}
  /\ tasks = [i \in Tasks |-> IdleTask]
  /\ inbox = [w \in SessIds |-> <<>>]
  /\ nops = 0
  /\ response = NoResponse
  /\ ClientInit

Init == \E persisted \in PersistedRecords : Activated(persisted)

\* ---------------------------------------------------------------- events
\* Events (requests, channel opens, messages, closes) are delivered only
\* while no blockConcurrencyWhile callback is running.
HasIdle == \E i \in Tasks : tasks[i].pc = "idle"
NextTask == CHOOSE i \in Tasks :
  tasks[i].pc = "idle" /\ \A j \in Tasks : j < i => tasks[j].pc # "idle"

CanDeliver == ~GateHeld /\ HasIdle

\* every event takes one unit of the budget of the behaviour
Budget == nops < MaxOps /\ nops' = nops + 1

\* Display names are interchangeable, so the k-th distinct name that ever
\* reaches the room is NameOrder[k].
InputNames ==
  {NameOrder[k] : k \in {j \in DOMAIN NameOrder : j <= nnames + 1}}

NameIndex(name) == CHOOSE k \in DOMAIN NameOrder : NameOrder[k] = name
Seen(name) ==
  nnames' = IF NameIndex(name) > nnames THEN NameIndex(name) ELSE nnames

\* the handler starts and awaits request.json()
Parse(op) ==
  /\ tasks' = [tasks EXCEPT ![NextTask] =
       [IdleTask EXCEPT !.op = op, !.pc = "parsing"]]
  /\ Budget
  /\ UNCHANGED response

\* the callback starts: const roomData = await storage.get('roomData')
Start(i, op, name, ws, arg) ==
  /\ CanEnter(i)
  /\ tasks' = [tasks EXCEPT ![i] =
       [IdleTask EXCEPT !.op = op, !.name = name, !.ws = ws, !.arg = arg,
                        !.pc = "run", !.read = store, !.roomData = store]]
  /\ UNCHANGED response

\* the handler finishes without calling blockConcurrencyWhile
Finish(op, name, ws) ==
  /\ response' = [NoResponse EXCEPT !.op = op, !.name = name]
  /\ Budget
  /\ UNCHANGED tasks

\* POST /initialize, POST /join or PUT /settings arrives
Request(op) ==
  /\ CanDeliver
  /\ Parse(op)
  /\ UNCHANGED <<store, sessions, opened, listening, broken, inbox, nnames, members>>

\* POST /initialize: the body is parsed, the callback starts
EnterInitialize(i, name) ==
  /\ tasks[i].pc = "parsing" /\ tasks[i].op = "initialize"
  /\ Start(i, "initialize", name, 0, NoSettings)
  /\ Seen(name)
  /\ UNCHANGED <<store, sessions, opened, listening, broken, inbox, nops,
                 members>>

\* POST /join: the body is parsed, the callback starts
EnterJoin(i, name) ==
  /\ tasks[i].pc = "parsing" /\ tasks[i].op = "join"
  /\ Start(i, "join", name, 0, NoSettings)
  /\ Seen(name)
  /\ UNCHANGED <<store, sessions, opened, listening, broken, inbox, nops,
                 members>>

\* PUT /settings: the body is parsed, the callback starts
EnterPutSettings(i, name, partial) ==
  /\ tasks[i].pc = "parsing" /\ tasks[i].op = "putSettings"
  /\ Start(i, "putSettings", name, 0, partial)
  /\ Seen(name)
  /\ UNCHANGED <<store, sessions, opened, listening, broken, inbox, nops,
                 members>>

\* GET /settings arrives, the callback starts
RequestGetSettings ==
  /\ CanDeliver
  /\ Start(NextTask, "getSettings", "", 0, NoSettings)
  /\ Budget
  /\ UNCHANGED <<store, sessions, opened, listening, broken, inbox, nnames, members>>

\* handleSession: the session is registered, the callback starts
OpenChannel(name) ==
  /\ CanDeliver
  /\ opened < MaxSessions
  /\ opened' = opened + 1
  /\ sessions' = Append(sessions, [ws |-> opened + 1, userName |-> name])
  /\ Start(NextTask, "connect", name, opened + 1, NoSettings)
  /\ Budget
  /\ Seen(name)
  /\ UNCHANGED <<store, listening, broken, inbox, members>>

Registered(ws) == \E k \in DOMAIN sessions : sessions[k].ws = ws
SessionUser(ws) ==
  sessions[CHOOSE k \in DOMAIN sessions : sessions[k].ws = ws].userName

\* the transport of an open channel fails: its send() throws from now on
Break(ws) ==
  /\ Budget
  /\ Registered(ws)
  /\ ws \in listening
  /\ ws \notin broken
  /\ broken' = broken \cup {ws}
  /\ UNCHANGED <<store, sessions, opened, listening, tasks, inbox, nnames,
                 members, response>>

Established(ws) == Registered(ws) /\ ws \in listening /\ ws \notin broken

\* a mutant of MessageMalformed: the error goes to every session
MessageMalformedToAll(ws) ==
  /\ CanDeliver
  /\ Established(ws)
  /\ Finish("malformed", SessionUser(ws), ws)
  /\ inbox' = Broadcast(sessions, broken, inbox,
                        Message("error", "", FALSE, EmptyRoom)).inbox
  /\ UNCHANGED <<store, sessions, opened, listening, broken, nnames, members>>

\* message listener: JSON.parse throws, the catch replies to the sender
MessageMalformed(ws) ==
  /\ CanDeliver
  /\ Established(ws)
  /\ Finish("malformed", SessionUser(ws), ws)
  /\ inbox' = Deliver(inbox, ws, Message("error", "", FALSE, EmptyRoom))
  /\ UNCHANGED <<store, sessions, opened, listening, broken, nnames, members>>

\* a mutant of MessageOther: a type that is not known is reported to the
\* sender
MessageOtherReplies(ws) ==
  /\ CanDeliver
  /\ Established(ws)
  /\ Finish("other", SessionUser(ws), ws)
  /\ inbox' = Deliver(inbox, ws, Message("error", "", FALSE, EmptyRoom))
  /\ UNCHANGED <<store, sessions, opened, listening, broken, nnames, members>>

\* message listener: data.type is not 'updateSettings'
MessageOther(ws) ==
  /\ CanDeliver
  /\ Established(ws)
  /\ Finish("other", SessionUser(ws), ws)
  /\ UNCHANGED <<store, sessions, opened, listening, broken, inbox, nnames, members>>

\* message listener: data.type is 'updateSettings', the callback starts
MessageUpdateSettings(ws, partial) ==
  /\ CanDeliver
  /\ Established(ws)
  /\ Start(NextTask, "updateSettings", SessionUser(ws), ws, partial)
  /\ Budget
  /\ UNCHANGED <<store, sessions, opened, listening, broken, inbox, nnames, members>>

\* this.sessions.delete(webSocket)
DeleteSession(sess, ws) == SelectSeq(sess, LAMBDA s : s.ws # ws)

\* Array.from(sessions.values()).some(s => s.userName === userName)
StillConnected(sess, name) == \E k \in DOMAIN sess : sess[k].userName = name

\* close listener: the session is removed; the callback starts if it was
\* the user's last one
ChannelClose(ws) ==
  /\ CanDeliver
  /\ Registered(ws)
  /\ ws \in listening
  /\ sessions' = DeleteSession(sessions, ws)
  /\ listening' = listening \ {ws}
  /\ IF StillConnected(DeleteSession(sessions, ws), SessionUser(ws))
       THEN Finish("close", SessionUser(ws), ws)
       ELSE /\ Start(NextTask, "close", SessionUser(ws), ws, NoSettings)
            /\ Budget
  /\ UNCHANGED <<store, opened, broken, inbox, nnames, members>>

\* ------------------------------------------------------ critical sections
Running(i, op) == tasks[i].pc = "run" /\ tasks[i].op = op

\* what the handler returns; /initialize and /join answer {success, room}
ResponseOf(t, status) ==
  [op |-> t.op, name |-> t.name, status |-> status, nput |-> t.nput,
   sent |-> t.sent, nfail |-> t.nfail,
   room |-> IF t.op \in {"initialize", "join"} /\ status = 200
              THEN t.roomData ELSE EmptyRoom]

\* the handler returns: its slot is free again
Done(i, t, status) ==
  /\ tasks' = [tasks EXCEPT ![i] = IdleTask]
  /\ response' = ResponseOf(t, status)

\* the callback returns without writing
Return(i, status) ==
  /\ Done(i, tasks[i], status)
  /\ UNCHANGED store

\* await storage.put('roomData', roomData), then continue at pc
Put(i, rec, pc) ==
  /\ store' = rec
  /\ tasks' = [tasks EXCEPT ![i].roomData = rec, ![i].pc = pc,
                            ![i].nput = @ + 1]
  /\ UNCHANGED response

\* a mutant of RoomExists: the guard of /initialize is missing
RoomExistsNever(roomData) == FALSE

\* else if (roomData.key)
RoomExists(roomData) == roomData.key # ""

\* a mutant of NewRoom: the creator is not put in users
NewRoomNoUsers(roomKey, moderator) ==
  [key |-> roomKey, users |-> <<>>, moderator |-> moderator,
   connectedUsers |-> SetConnected(EmptyMap, moderator, TRUE),
   settings |-> EmptyMap]

\* a mutant of NewRoom: the creator is not marked connected
NewRoomNotConnected(roomKey, moderator) ==
  [key |-> roomKey, users |-> <<moderator>>, moderator |-> moderator,
   connectedUsers |-> EmptyMap, settings |-> EmptyMap]

\* the record /initialize builds
NewRoom(roomKey, moderator) ==
  [key |-> roomKey, users |-> <<moderator>>, moderator |-> moderator,
   connectedUsers |-> SetConnected(EmptyMap, moderator, TRUE),
   settings |-> EmptyMap]

\* /initialize inside blockConcurrencyWhile
Initialize(i) ==
  /\ Running(i, "initialize")
  /\ IF RoomExists(tasks[i].roomData)
       THEN Return(i, 400)
       ELSE /\ store' = NewRoom(RoomKey, tasks[i].name)
            /\ Done(i, [tasks[i] EXCEPT
                           !.roomData = NewRoom(RoomKey, tasks[i].name),
                           !.nput = @ + 1], 200)
  /\ members' = IF RoomExists(tasks[i].roomData) THEN members
                ELSE {tasks[i].name}
  /\ UNCHANGED <<sessions, opened, listening, broken, inbox, nops, nnames>>

\* a mutant of RoomNotFound: the handlers accept an uninitialized room
RoomNotFoundNever(roomData) == FALSE

\* if (!roomData || !roomData.key) in /join, GET /settings and PUT /settings
RoomNotFound(roomData) == roomData.key = ""

\* a mutant of WithUser: the name is pushed but gets no connectedUsers entry
WithUserNoEntry(roomData, name) ==
  [roomData EXCEPT !.users = PushIfAbsent(@, name)]

\* a mutant of WithUser: the first of users becomes moderator again when
\* it comes back
WithUserReclaims(roomData, name) ==
  [roomData EXCEPT !.users = PushIfAbsent(@, name),
                   !.connectedUsers = SetConnected(@, name, TRUE),
                   !.moderator = IF Len(roomData.users) > 0
                                    /\ roomData.users[1] = name
                                   THEN name ELSE @]

\* users.push if absent; connectedUsers[name] = true
WithUser(roomData, name) ==
  [roomData EXCEPT !.users = PushIfAbsent(@, name),
                   !.connectedUsers = SetConnected(@, name, TRUE)]

\* /join inside blockConcurrencyWhile, up to the put
Join(i) ==
  /\ Running(i, "join")
  /\ IF RoomNotFound(tasks[i].roomData)
       THEN Return(i, 404)
       ELSE Put(i, WithUser(Reconcile(tasks[i].roomData), tasks[i].name),
                "bcast")
  /\ members' = IF RoomNotFound(tasks[i].roomData) THEN members
                ELSE members \cup {tasks[i].name}
  /\ UNCHANGED <<sessions, opened, listening, broken, inbox, nops, nnames>>

\* GET /settings inside blockConcurrencyWhile
GetSettings(i) ==
  /\ Running(i, "getSettings")
  /\ Return(i, IF RoomNotFound(tasks[i].roomData) THEN 404 ELSE 200)
  /\ UNCHANGED <<sessions, opened, listening, broken, inbox, nops, nnames, members>>

\* a mutant of Forbidden: PUT /settings does not look at the moderator
ForbiddenNever(roomData, name) == FALSE

\* if (roomData.moderator !== name) in PUT /settings
Forbidden(roomData, name) == roomData.moderator # name

\* a mutant of Dropped: handleUpdateSettings does not look at the moderator
DroppedNever(roomData, userName) == FALSE

\* a mutant of Dropped: the right to update stays with the user who
\* created the room
DroppedUnlessCreator(roomData, userName) ==
  Len(roomData.users) = 0 \/ roomData.users[1] # userName

\* if (roomData.moderator !== userName) return, in handleUpdateSettings
Dropped(roomData, userName) == roomData.moderator # userName

\* PUT /settings inside blockConcurrencyWhile, up to the put
PutSettings(i) ==
  /\ Running(i, "putSettings")
  /\ IF RoomNotFound(tasks[i].roomData) THEN Return(i, 404)
     ELSE IF Forbidden(tasks[i].roomData, tasks[i].name) THEN Return(i, 403)
     ELSE Put(i, [tasks[i].roomData EXCEPT
                    !.settings = MergeSettings(@, tasks[i].arg)], "bcast")
  /\ UNCHANGED <<sessions, opened, listening, broken, inbox, nops, nnames, members>>

\* handleSession inside blockConcurrencyWhile, up to the put
HandleSession(i) ==
  /\ Running(i, "connect")
  /\ Put(i, WithUser(Reconcile(tasks[i].roomData), tasks[i].name), "bcast")
  /\ members' = members \cup {tasks[i].name}
  /\ UNCHANGED <<sessions, opened, listening, broken, inbox, nops, nnames>>

\* handleUpdateSettings inside blockConcurrencyWhile, up to the put
HandleUpdateSettings(i) ==
  /\ Running(i, "updateSettings")
  /\ IF Dropped(tasks[i].roomData, tasks[i].name) THEN Return(i, 0)
     ELSE Put(i, [tasks[i].roomData EXCEPT
                    !.settings = MergeSettings(@, tasks[i].arg)], "bcast")
  /\ UNCHANGED <<sessions, opened, listening, broken, inbox, nops, nnames, members>>

\* close listener inside blockConcurrencyWhile, up to the first put
HandleClose(i) ==
  /\ Running(i, "close")
  /\ Put(i, [Reconcile(tasks[i].roomData) EXCEPT
               !.connectedUsers = SetConnected(@, tasks[i].name, FALSE)],
         "bcast")
  /\ UNCHANGED <<sessions, opened, listening, broken, inbox, nops, nnames, members>>

\* the message each operation broadcasts after its put
BroadcastOf(t) ==
  CASE t.op = "join" -> Message("userJoined", t.name, FALSE, t.roomData)
    [] t.op = "connect" -> Message("userConnectionStatus", t.name, TRUE, t.roomData)
    [] t.op = "close" -> Message("userConnectionStatus", t.name, FALSE, t.roomData)
    [] OTHER -> Message("settingsUpdated", "", FALSE, t.roomData)

\* the candidates of the close listener's failover
Candidates(roomData) == FilterConnected(roomData.users, roomData.connectedUsers)

\* where the handler continues after its first broadcast
AfterBroadcast(t) ==
  CASE t.op = "connect" -> [pc |-> "post", status |-> 0]
    [] t.op = "close" ->
         IF t.name = t.roomData.moderator /\ Len(Candidates(t.roomData)) > 0
           THEN [pc |-> "moderator", status |-> 0]
           ELSE [pc |-> "done", status |-> 0]
    [] t.op = "updateSettings" -> [pc |-> "done", status |-> 0]
    [] OTHER -> [pc |-> "done", status |-> 200]

\* this.broadcast(...) inside the callback, after the put
SendBroadcast(i, msg, next) ==
  LET r == Broadcast(sessions, broken, inbox, msg)
      t == [tasks[i] EXCEPT !.sent = Append(@, msg), !.nfail = @ + r.nfail]
  IN  /\ inbox' = r.inbox
      /\ IF r.threw THEN Done(i, t, 500)
         ELSE IF next.pc = "done" THEN Done(i, t, next.status)
         ELSE /\ tasks' = [tasks EXCEPT ![i] = [t EXCEPT !.pc = next.pc]]
              /\ UNCHANGED response

BroadcastStep(i) ==
  /\ tasks[i].pc = "bcast"
  /\ SendBroadcast(i, BroadcastOf(tasks[i]), AfterBroadcast(tasks[i]))
  /\ UNCHANGED <<store, sessions, opened, listening, broken, nops, nnames, members>>

\* close listener: roomData.moderator = connectedUsers[0], second put
PromoteModerator(i) ==
  /\ tasks[i].pc = "moderator"
  /\ Put(i, [tasks[i].roomData EXCEPT
               !.moderator = NextModerator(Candidates(tasks[i].roomData))],
         "bcast2")
  /\ UNCHANGED <<sessions, opened, listening, broken, inbox, nops, nnames, members>>

\* close listener: broadcast of newModerator
BroadcastModerator(i) ==
  /\ tasks[i].pc = "bcast2"
  /\ SendBroadcast(i, Message("newModerator", tasks[i].roomData.moderator, FALSE, tasks[i].roomData),
                   [pc |-> "done", status |-> 0])
  /\ UNCHANGED <<store, sessions, opened, listening, broken, nops, nnames, members>>

\* the callback of a handler at pc "run" reaches a storage.put
ReachesPut(t) ==
  CASE t.op = "initialize" -> ~RoomExists(t.roomData)
    [] t.op = "join" -> ~RoomNotFound(t.roomData)
    [] t.op = "putSettings" ->
         ~RoomNotFound(t.roomData) /\ ~Forbidden(t.roomData, t.name)
    [] t.op = "updateSettings" -> ~Dropped(t.roomData, t.name)
    [] t.op \in {"connect", "close"} -> TRUE
    [] OTHER -> FALSE

\* the catch of the message listener: the rejection of handleUpdateSettings
\* is reported to the channel the message came from, after the callback
CaughtByListener(t, box) ==
  IF t.op = "updateSettings" /\ t.ws \notin broken
    THEN Deliver(box, t.ws,
                 [Message("error", "", FALSE, EmptyRoom) EXCEPT !.gate = FALSE])
    ELSE box

\* await storage.put(...) rejects: the exception leaves the callback, the
\* handler ends with an error and what was put before stays in the store
PutThrows(i) ==
  /\ \/ tasks[i].pc = "run" /\ ReachesPut(tasks[i])
     \/ tasks[i].pc = "moderator"
  /\ Done(i, tasks[i], 500)
  /\ inbox' = CaughtByListener(tasks[i], inbox)
  /\ Budget
  /\ UNCHANGED <<store, sessions, opened, listening, broken, nnames, members>>

\* await storage.get(...) or await storage.put(...) never settles: nothing
\* in the callback bounds the wait, so the callback stays where it is with
\* the store as it was before the call
StorageHangs(i) ==
  /\ tasks[i].pc \in {"run", "moderator"}
  /\ tasks' = [tasks EXCEPT ![i].pc = "hung"]
  /\ Budget
  /\ UNCHANGED <<store, sessions, opened, listening, broken, inbox,
                 nnames, members, response>>

\* a mutant of SendInitialize: 'initialize' goes to every session
SendInitializeToAll(i) ==
  /\ tasks[i].pc = "post"
  /\ ~GateHeld
  /\ inbox' = Broadcast(sessions, broken, inbox,
                        Message("initialize", "", FALSE, store)).inbox
  /\ listening' = listening \cup {tasks[i].ws}
  /\ Done(i, tasks[i], 101)
  /\ UNCHANGED <<store, sessions, opened, broken, nops, nnames, members>>

\* handleSession after the callback: get, send 'initialize', add listeners
SendInitialize(i) ==
  /\ tasks[i].pc = "post"
  /\ ~GateHeld
  /\ inbox' = Deliver(inbox, tasks[i].ws, Message("initialize", "", FALSE, store))
  /\ listening' = listening \cup {tasks[i].ws}
  /\ Done(i, tasks[i], 101)
  /\ UNCHANGED <<store, sessions, opened, broken, nops, nnames, members>>

\* ------------------------------------------------------------------ Next
\* the room object runs on the server, whatever the clients do
Next ==
  \/ \E op \in {"initialize", "join", "putSettings"} : Request(op) /\ UNCHANGED cvars
  \/ \E i \in Tasks, n \in InputNames : EnterInitialize(i, n) /\ UNCHANGED cvars
  \/ \E i \in Tasks, n \in InputNames : EnterJoin(i, n) /\ UNCHANGED cvars
  \/ \E i \in Tasks, n \in InputNames, p \in Partials : EnterPutSettings(i, n, p) /\ UNCHANGED cvars
  \/ RequestGetSettings /\ UNCHANGED cvars
  \/ \E n \in InputNames : OpenChannel(n) /\ UNCHANGED cvars
  \/ \E w \in SessIds : Break(w) /\ UNCHANGED cvars
  \/ \E w \in SessIds : MessageMalformed(w) /\ UNCHANGED cvars
  \/ \E w \in SessIds : MessageOther(w) /\ UNCHANGED cvars
  \/ \E w \in SessIds, p \in Partials : MessageUpdateSettings(w, p) /\ UNCHANGED cvars
  \/ \E w \in SessIds : ChannelClose(w) /\ UNCHANGED cvars
  \/ \E i \in Tasks : Initialize(i) /\ UNCHANGED cvars
  \/ \E i \in Tasks : Join(i) /\ UNCHANGED cvars
  \/ \E i \in Tasks : GetSettings(i) /\ UNCHANGED cvars
  \/ \E i \in Tasks : PutSettings(i) /\ UNCHANGED cvars
  \/ \E i \in Tasks : HandleSession(i) /\ UNCHANGED cvars
  \/ \E i \in Tasks : HandleUpdateSettings(i) /\ UNCHANGED cvars
  \/ \E i \in Tasks : HandleClose(i) /\ UNCHANGED cvars
  \/ \E i \in Tasks : BroadcastStep(i) /\ UNCHANGED cvars
  \/ \E i \in Tasks : PromoteModerator(i) /\ UNCHANGED cvars
  \/ \E i \in Tasks : BroadcastModerator(i) /\ UNCHANGED cvars
  \/ \E i \in Tasks : SendInitialize(i) /\ UNCHANGED cvars
  \/ \E i \in Tasks : PutThrows(i) /\ UNCHANGED cvars
  \/ \E i \in Tasks : StorageHangs(i) /\ UNCHANGED cvars

Spec == Init /\ [][Next]_vars

\* What the runtime does without waiting for anything outside: a request
\* that was received gets its turn at the gate, a callback that runs goes
\* on to its next statement, a handler past the gate sends what it has to
\* send.  Events from clients and faults of the storage are not in it.
Progress ==
  \E i \in Tasks :
    \/ \E n \in InputNames : EnterInitialize(i, n) \/ EnterJoin(i, n)
    \/ \E n \in InputNames, p \in Partials : EnterPutSettings(i, n, p)
    \/ Initialize(i) \/ Join(i) \/ GetSettings(i) \/ PutSettings(i)
    \/ HandleSession(i) \/ HandleUpdateSettings(i) \/ HandleClose(i)
    \/ BroadcastStep(i) \/ PromoteModerator(i) \/ BroadcastModerator(i)
    \/ SendInitialize(i)

\* the program with a runtime that keeps running what it can run
FairSpec == Spec /\ WF_vars(Progress)

\* A room in the middle of its life: user A opened two channels, one after
\* the other, on a room nobody has created yet.  Spec reaches this state
\* with two events (TwoChannelsReachable); starting from it leaves the whole
\* budget of events for what follows.
ConnectedMessage(name, roomData) ==
  [type |-> "userConnectionStatus", name |-> name, isConnected |-> TRUE,
   gate |-> TRUE, roomData |-> roomData]

InitializeMessage(roomData) ==
  [type |-> "initialize", name |-> "", isConnected |-> FALSE, gate |-> FALSE,
   roomData |-> roomData]

TwoChannels ==
  LET rec == WithUser(EmptyRoom, "A")
  IN  /\ store = rec
      /\ sessions = <<[ws |-> 1, userName |-> "A"], [ws |-> 2, userName |-> "A"]>>
      /\ opened = 2
      /\ listening = {1, 2}
      /\ broken = {}
      /\ tasks = [i \in Tasks |-> IdleTask]
      /\ inbox = [w \in SessIds |->
           IF w = 1 THEN <<ConnectedMessage("A", rec), InitializeMessage(rec),
                           ConnectedMessage("A", rec)>>
           ELSE IF w = 2 THEN <<ConnectedMessage("A", rec),
                                InitializeMessage(rec)>>
           ELSE <<>>]
      /\ nnames = 1
      /\ members = {"A"}
      /\ response = [NoResponse EXCEPT
                       !.op = "connect", !.name = "A", !.status = 101,
                       !.nput = 1, !.sent = <<ConnectedMessage("A", rec)>>]

TwoChannelsReachable == TwoChannels /\ nops = 2

InitOpen == Init \/ (TwoChannels /\ nops = 0 /\ ClientInit)

SpecOpen == InitOpen /\ [][Next]_vars

\* Another room in the middle of its life: B joined the room A created,
\* then A opened a channel.  Spec reaches this state with two events
\* (ModeratorOnlineReachable).
ModeratorOnline ==
  LET rec == WithUser(NewRoom(RoomKey, "A"), "B")
  IN  /\ store = rec
      /\ sessions = <<[ws |-> 1, userName |-> "A"]>>
      /\ opened = 1
      /\ listening = {1}
      /\ broken = {}
      /\ tasks = [i \in Tasks |-> IdleTask]
      /\ inbox = [w \in SessIds |->
           IF w = 1 THEN <<ConnectedMessage("A", rec), InitializeMessage(rec)>>
           ELSE <<>>]
      /\ nnames = 2
      /\ members = {"A", "B"}
      /\ response = [NoResponse EXCEPT
                       !.op = "connect", !.name = "A", !.status = 101,
                       !.nput = 1, !.sent = <<ConnectedMessage("A", rec)>>]

ModeratorOnlineReachable == ModeratorOnline /\ nops = 2

InitOnline == Init \/ (ModeratorOnline /\ nops = 0 /\ ClientInit)

SpecOnline == InitOnline /\ [][Next]_vars

\* The reconciliation applied to stored records of every shape of the
\* RoomData type: besides the records of Init, one whose connectedUsers map
\* has an entry for some of its users only.
PartialRoom ==
  [key |-> RoomKey, users |-> <<"A", "B">>, moderator |-> "A",
   connectedUsers |-> [n \in {"A"} |-> TRUE], settings |-> EmptyMap]

InitStored ==
  \E persisted \in PersistedRecords \cup {PartialRoom} : Activated(persisted)

SpecStored == InitStored /\ [][Next]_vars

\* ---------------------------------------------------------------- client
MAX_RECONNECT_ATTEMPTS == 5
RECONNECT_BASE_DELAY == 1000
MAX_RECONNECT_DELAY == 30000

\* Math.random() * 0.3 + 0.85, in hundredths
Jitters == {85, 90, 95, 100, 105, 110, 115}

\* the codes a close event may carry: normal, going away, abnormal
CloseCodes == {1000, 1001, 1006}

Min(a, b) == IF a < b THEN a ELSE b

\* Math.min(RECONNECT_BASE_DELAY * 2 ** reconnectAttempts * jitter,
\*          MAX_RECONNECT_DELAY)
Delay(attempts, jitter) ==
  Min((RECONNECT_BASE_DELAY * 2^attempts * jitter) \div 100,
      MAX_RECONNECT_DELAY)

\* the body of connectToRoom: the socket held is closed already or there
\* is none, the counter is reset and a new socket is created
Connect ==
  /\ activeSocket \in {"null", "closed"}
  /\ reconnectAttempts' = 0
  /\ activeSocket' = "connecting"

\* the application calls connectToRoom
ConnectToRoom ==
  /\ timer = 0
  /\ Connect
  /\ failed' = 0
  /\ UNCHANGED <<timer, disconnected>>

\* socket.onopen
SocketOpen ==
  /\ activeSocket = "connecting"
  /\ activeSocket' = "open"
  /\ reconnectAttempts' = 0
  /\ failed' = 0
  /\ UNCHANGED <<timer, disconnected>>

\* handleReconnect
HandleReconnect ==
  IF reconnectAttempts < MAX_RECONNECT_ATTEMPTS
    THEN /\ reconnectAttempts' = reconnectAttempts + 1
         /\ \E jitter \in Jitters :
              timer' = Delay(reconnectAttempts + 1, jitter)
         /\ UNCHANGED disconnected
    ELSE /\ disconnected' = TRUE
         /\ UNCHANGED <<reconnectAttempts, timer>>

\* socket.onclose with event.code = code
SocketClose(code) ==
  /\ activeSocket \in {"connecting", "open"}
  /\ activeSocket' = "closed"
  /\ IF code # 1000 /\ code # 1001
       THEN /\ HandleReconnect
            /\ IF activeSocket = "connecting"
                 THEN failed < MaxFailed /\ failed' = failed + 1
                 ELSE UNCHANGED failed
       ELSE UNCHANGED <<reconnectAttempts, timer, disconnected, failed>>

\* the callback of setTimeout in handleReconnect: connectToRoom again
TimerFires ==
  /\ timer # 0
  /\ timer' = 0
  /\ Connect
  /\ UNCHANGED <<disconnected, failed>>

\* disconnectFromRoom: close(1000, ...), activeSocket = null
DisconnectFromRoom ==
  /\ activeSocket # "null"
  /\ activeSocket' = "null"
  /\ UNCHANGED <<reconnectAttempts, timer, disconnected, failed>>

ClientNext ==
  \/ ConnectToRoom /\ UNCHANGED vars
  \/ SocketOpen /\ UNCHANGED vars
  \/ \E code \in CloseCodes : SocketClose(code) /\ UNCHANGED vars
  \/ TimerFires /\ UNCHANGED vars
  \/ DisconnectFromRoom /\ UNCHANGED vars

\* the client alone, against a server it cannot always reach
SpecClient == Activated(Absent) /\ [][ClientNext]_cvars

\* ----------------------------------------------------------- properties
\* no operation is in progress
Quiescent == \A i \in Tasks : tasks[i].pc = "idle"

\* the room has been initialized
Active == store.key # ""

NoDuplicates(users) ==
  \A j, k \in DOMAIN users : users[j] = users[k] => j = k

\* the handler in slot i returns in this step
Completes(i) == tasks[i].pc # "idle" /\ tasks'[i].pc = "idle"

\* C1: no lost joins under concurrency. Once every handler has finished, the
\* persisted users list holds exactly the names that were there before plus
\* every name a completed join (or channel open) added, each of them once.
NoLostJoins ==
  Quiescent =>
    /\ Range(store.users) = members
    /\ NoDuplicates(store.users)

\* C1 witness: a join has written its name while another join request is in
\* progress, after an earlier join of another name has returned; both names
\* are in the list.
ConcurrentJoinsDone ==
  \E i, j \in Tasks :
    /\ tasks[i].op = "join" /\ tasks[i].pc = "bcast"
    /\ tasks[j].op = "join" /\ tasks[j].pc = "parsing"
    /\ response.op = "join" /\ response.status = 200
    /\ response.name # tasks[i].name
    /\ {response.name, tasks[i].name} \subseteq Range(store.users)

\* C2: Mutation Gate mutual exclusion. At most one blockConcurrencyWhile
\* callback is between its read and its last write, and the record in the
\* store is the one that callback read or wrote last: no other read or write
\* falls inside it.
GateMutualExclusion ==
  /\ Cardinality({i \in Tasks : InSection(tasks[i])}) <= 1
  /\ \A i \in Tasks : InSection(tasks[i]) => tasks[i].roomData = store

\* C2 witness: one callback has written and is still running while another
\* request is waiting to start its own.
GateContended ==
  \E i, j \in Tasks :
    /\ tasks[i].pc = "bcast" /\ tasks[i].nput = 1
    /\ tasks[j].pc = "parsing"

\* C3: single active moderator. In an Active room with at least one connected
\* user and no operation in progress, the moderator is a connected user.
ModeratorConnected ==
  (Quiescent /\ Active
     /\ \E u \in Range(store.users) : IsConnected(store.connectedUsers, u))
  => IsConnected(store.connectedUsers, store.moderator)

\* the first member of users, in order, whose connectedUsers entry is true
FirstConnected(roomData) ==
  roomData.users[CHOOSE k \in DOMAIN roomData.users :
    /\ IsConnected(roomData.connectedUsers, roomData.users[k])
    /\ \A j \in DOMAIN roomData.users :
         j < k => ~IsConnected(roomData.connectedUsers, roomData.users[j])]

\* C4: moderator failover determinism. When the close of the moderator's
\* last session has been handled without a storage error and some member of
\* users is connected, the moderator is the first connected member in users
\* order.
FailoverStep ==
  \A i \in Tasks :
    (/\ Completes(i) /\ tasks[i].op = "close"
     /\ response'.status # 500
     /\ tasks[i].read.moderator = tasks[i].name
     /\ \E u \in Range(store'.users) : IsConnected(store'.connectedUsers, u))
    => store'.moderator = FirstConnected(store')

ClosesChannel(w) ==
  /\ Registered(w)
  /\ \A k \in DOMAIN sessions' : sessions'[k].ws # w

UserOfChannel(w) == SessionUser(w)

IsDisconnectNotice(msg) ==
  msg.type = "userConnectionStatus" /\ ~msg.isConnected

\* C5: multi-session disconnect suppression. Closing a channel of a user who
\* has another registered session leaves connectedUsers[U] true, writes
\* nothing and sends nothing; handling the close of the user's last session
\* leaves connectedUsers[U] false after exactly one userConnectionStatus
\* broadcast with isConnected false.
DisconnectSuppressionStep ==
  /\ \A w \in SessIds :
       (ClosesChannel(w) /\ StillConnected(sessions', UserOfChannel(w)))
       => /\ IsConnected(store'.connectedUsers, UserOfChannel(w))
          /\ store' = store /\ inbox' = inbox /\ tasks' = tasks
  /\ \A i \in Tasks :
       (Completes(i) /\ tasks[i].op = "close")
       => /\ tasks[i].name \in DOMAIN store'.connectedUsers
          /\ ~store'.connectedUsers[tasks[i].name]
          /\ Cardinality({k \in DOMAIN response'.sent :
                            IsDisconnectNotice(response'.sent[k])}) = 1

DisconnectSuppression == [][DisconnectSuppressionStep]_vars

\* C6: idempotent create guard. An /initialize on a room whose record has a
\* non-empty key returns 400 and leaves the record as it was.
CreateGuardStep ==
  \A i \in Tasks :
    (Completes(i) /\ tasks[i].op = "initialize" /\ store.key # "")
    => (response'.status = 400 /\ response'.nput = 0 /\ store' = store)

CreateGuard == [][CreateGuardStep]_vars

\* C6 witness: an /initialize has been refused on a room that other
\* operations have changed since it was created.
CreateRefused ==
  /\ response.op = "initialize" /\ response.status = 400
  /\ Len(store.users) > 1

\* the settings update in slot i is authorized and writes in this step
SettingsWrite(i) ==
  /\ tasks[i].op \in {"putSettings", "updateSettings"}
  /\ tasks[i].pc = "run" /\ tasks'[i].pc = "bcast"

\* C7: settings merge is non-destructive. After a successful update every key
\* of the update has the new value and every other key keeps its value.
SettingsMergeStep ==
  \A i \in Tasks :
    SettingsWrite(i) =>
      /\ DOMAIN store'.settings = DOMAIN store.settings \cup DOMAIN tasks[i].arg
      /\ \A k \in DOMAIN tasks[i].arg : store'.settings[k] = tasks[i].arg[k]
      /\ \A k \in DOMAIN store.settings \ DOMAIN tasks[i].arg :
           store'.settings[k] = store.settings[k]

SettingsMergeNonDestructive == [][SettingsMergeStep]_vars

\* C7 witness: updates of one key each have left both keys set, the last one
\* made on the request path or on the channel path.
BothKeysSet ==
  /\ DOMAIN store.settings = Keys
  /\ response.op \in {"putSettings", "updateSettings"}
  /\ response.nput = 1

\* the handler in slot i broadcasts in this step
Broadcasts(i) ==
  tasks[i].pc \in {"bcast", "bcast2"} /\ tasks'[i].pc # tasks[i].pc

\* C8: broadcast isolation. A broadcast reaches every registered session
\* whose send does not fail, whatever the other sends do; the handler does not
\* fail and the record it wrote stays in the store.
BroadcastIsolationStep ==
  \A i \in Tasks :
    Broadcasts(i) =>
      /\ \A k \in DOMAIN sessions :
           sessions[k].ws \notin broken =>
             /\ Len(inbox'[sessions[k].ws]) = Len(inbox[sessions[k].ws]) + 1
             /\ inbox'[sessions[k].ws][Len(inbox'[sessions[k].ws])].type
                  \in {"userJoined", "userConnectionStatus", "newModerator",
                       "settingsUpdated"}
      /\ store' = store /\ store = tasks[i].roomData
      /\ Completes(i) => response'.status # 500

BroadcastIsolation == [][BroadcastIsolationStep]_vars

\* C8 witness: a handler has finished without error after a broadcast in
\* which a send failed, and a session that is not broken has its message.
BroadcastSurvivedFailure ==
  /\ response.nfail > 0 /\ response.status # 500 /\ response.nput > 0
  /\ \E k \in DOMAIN sessions :
       /\ sessions[k].ws \notin broken
       /\ \E m \in DOMAIN inbox[sessions[k].ws] :
            inbox[sessions[k].ws][m] = response.sent[1]

\* C11: no partially-applied record. A handler that ends with an error (a
\* storage.put that rejects included) leaves in the store the record it read
\* when it started: nothing of the failed operation is persisted.
NoPartialRecordStep ==
  \A i \in Tasks :
    (Completes(i) /\ response'.status = 500) => store' = tasks[i].read

NoPartialRecord == [][NoPartialRecordStep]_vars

\* C12: a PUT /settings on an Active room by a name that is not the
\* moderator returns 403, writes nothing and broadcasts nothing.
ForbiddenUpdateStep ==
  \A i \in Tasks :
    (/\ tasks[i].op = "putSettings" /\ tasks[i].pc = "run"
     /\ tasks[i].read.key # ""
     /\ tasks[i].read.moderator # tasks[i].name
     /\ tasks'[i] # tasks[i] /\ tasks'[i].pc # "hung")
    => /\ Completes(i)
       /\ response'.status = 403
       /\ response'.nput = 0 /\ response'.sent = <<>>
       /\ store' = store /\ store = tasks[i].read
       /\ inbox' = inbox

ForbiddenUpdate == [][ForbiddenUpdateStep]_vars

\* C12 witness: a PUT /settings by somebody else than the moderator of an
\* Active room has returned 403 while a session was registered.
ForbiddenReturned ==
  /\ response.op = "putSettings" /\ response.status = 403
  /\ Active /\ store.moderator # response.name
  /\ Len(sessions) > 0

\* C13: an updateSettings message on a channel whose user is not the
\* moderator is dropped: nothing is written, nothing is broadcast and the
\* sender gets no error message.
SilentDropStep ==
  \A i \in Tasks :
    (/\ tasks[i].op = "updateSettings" /\ tasks[i].pc = "run"
     /\ tasks[i].read.moderator # tasks[i].name
     /\ tasks'[i] # tasks[i] /\ tasks'[i].pc # "hung")
    => /\ Completes(i)
       /\ response'.status = 0
       /\ response'.nput = 0 /\ response'.sent = <<>>
       /\ store' = store /\ store = tasks[i].read
       /\ inbox' = inbox

SilentDrop == [][SilentDropStep]_vars

\* C13 witness: the handler of an updateSettings message from a user who is
\* not the moderator has returned, in an Active room.
DroppedReturned ==
  /\ response.op = "updateSettings" /\ response.status = 0
  /\ response.nput = 0
  /\ Active /\ store.moderator # response.name
  /\ \E k \in DOMAIN sessions : sessions[k].userName = response.name

\* C14: /join, GET /settings and PUT /settings on a room that was never
\* initialized (empty key) return 404, write nothing and broadcast nothing.
RoomNotFoundStep ==
  \A i \in Tasks :
    (/\ tasks[i].op \in {"join", "getSettings", "putSettings"}
     /\ tasks[i].pc = "run"
     /\ tasks[i].read.key = ""
     /\ tasks'[i] # tasks[i] /\ tasks'[i].pc # "hung")
    => /\ Completes(i)
       /\ response'.status = 404
       /\ response'.nput = 0 /\ response'.sent = <<>>
       /\ store' = store /\ store = tasks[i].read
       /\ inbox' = inbox

RoomNotFoundOnUninitialized == [][RoomNotFoundStep]_vars

\* C14 witness: a /join has returned 404 on a room without a key although a
\* channel is open on it and its user is in the record.
JoinNotFound ==
  /\ response.op = "join" /\ response.status = 404
  /\ ~Active
  /\ Len(sessions) > 0 /\ Len(store.users) > 0

\* C15: a successful /initialize on a room without a key leaves in the
\* store exactly key = roomKey, users = [name], moderator = name,
\* connectedUsers = {name: true} and empty settings, returns that record and
\* broadcasts nothing.
CreateRecordStep ==
  \A i \in Tasks :
    (Completes(i) /\ tasks[i].op = "initialize" /\ response'.status = 200)
    => /\ tasks[i].read.key = ""
       /\ store'.key = RoomKey
       /\ store'.users = <<tasks[i].name>>
       /\ store'.moderator = tasks[i].name
       /\ DOMAIN store'.connectedUsers = {tasks[i].name}
       /\ store'.connectedUsers[tasks[i].name]
       /\ DOMAIN store'.settings = {}
       /\ response'.room = store'
       /\ response'.sent = <<>>
       /\ inbox' = inbox

CreateRecord == [][CreateRecordStep]_vars

\* C15 witness: /initialize has succeeded on a room where a channel was
\* already open, and the store holds the record it returned.
CreatedWithSession ==
  /\ response.op = "initialize" /\ response.status = 200
  /\ response.room = store
  /\ Len(sessions) > 0

\* the /join handler in slot i writes its record in this step
JoinWrite(i) ==
  /\ tasks[i].op = "join"
  /\ tasks[i].pc = "run" /\ tasks'[i].pc = "bcast"

\* C16: a successful /join on an Active room appends the name at the end of
\* users exactly when it is not there yet, leaves the other entries and their
\* order alone, sets connectedUsers[name] to true, persists, and sends one
\* userJoined broadcast that carries the record it wrote.
JoinRecordStep ==
  \A i \in Tasks :
    /\ JoinWrite(i) =>
         LET name == tasks[i].name
             n == Len(store.users)
         IN  /\ Active
             /\ Includes(store.users, name) => store'.users = store.users
             /\ ~Includes(store.users, name) =>
                  /\ Len(store'.users) = n + 1
                  /\ store'.users[n + 1] = name
                  /\ \A k \in 1..n : store'.users[k] = store.users[k]
             /\ DOMAIN store'.connectedUsers =
                  DOMAIN store.connectedUsers \cup {name}
             /\ store'.connectedUsers[name]
             /\ \A u \in DOMAIN store.connectedUsers \ {name} :
                  store'.connectedUsers[u] = store.connectedUsers[u]
             /\ store'.key = store.key
             /\ store'.moderator = store.moderator
             /\ store'.settings = store.settings
    /\ (Completes(i) /\ tasks[i].op = "join" /\ response'.status = 200) =>
         /\ response'.nput = 1
         /\ Len(response'.sent) = 1
         /\ response'.sent[1].type = "userJoined"
         /\ response'.sent[1].name = tasks[i].name
         /\ response'.sent[1].roomData = store'
         /\ store' = store

JoinRecord == [][JoinRecordStep]_vars

\* C16 witness: a /join of a new name has succeeded while a channel was
\* open; the name is the last of at least two users and the channel has the
\* userJoined message.
JoinedAtEnd ==
  /\ response.op = "join" /\ response.status = 200
  /\ Len(store.users) >= 2
  /\ store.users[Len(store.users)] = response.name
  /\ \E k \in DOMAIN sessions :
       \E m \in DOMAIN inbox[sessions[k].ws] :
         inbox[sessions[k].ws][m] = response.sent[1]

\* C17: users never holds the same name twice, neither in the store nor in
\* the copy a handler is working on.
UsersUnique ==
  /\ NoDuplicates(store.users)
  /\ \A i \in Tasks : NoDuplicates(tasks[i].roomData.users)

\* C17 witness: one name has two open channels, both connected after the
\* name was already in users, and no handler is in progress.
SameNameTwice ==
  /\ Quiescent
  /\ Len(sessions) = 2
  /\ sessions[1].userName = sessions[2].userName
  /\ listening = {1, 2}
  /\ Includes(store.users, sessions[1].userName)

\* C18: in an initialized room with no operation in progress the moderator
\* is one of users.
ModeratorIsUser ==
  (Quiescent /\ Active) => Includes(store.users, store.moderator)

\* C18 witness: the close handler of the moderator's last session has
\* returned after its second put, and the room has another moderator.
ModeratorReplaced ==
  /\ Quiescent /\ Active
  /\ response.op = "close" /\ response.nput = 2
  /\ store.moderator # response.name

MissingEntries(roomData) ==
  Range(roomData.users) \ DOMAIN roomData.connectedUsers

\* C20: reconciliation on read. Once the callback of /join, of a channel
\* open or of a channel close has read the record and works with its
\* connectedUsers map, every name of users that had no entry in the record
\* read has an entry in the working copy, false unless it is the name the
\* operation itself sets.
ReconciledOnRead ==
  \A i \in Tasks :
    (tasks[i].op \in {"join", "connect", "close"}
       /\ tasks[i].pc \in SectionPcs \ {"run", "hung"})
    => \A u \in MissingEntries(tasks[i].read) :
         /\ u \in DOMAIN tasks[i].roomData.connectedUsers
         /\ u # tasks[i].name => ~tasks[i].roomData.connectedUsers[u]

\* the number of messages of one type a channel was sent
CountType(box, type) ==
  Cardinality({k \in DOMAIN box : box[k].type = type})

\* C21: a channel open sends 'initialize' once. The handler of a channel
\* open that returns without a storage error has sent, in its last step and
\* with no blockConcurrencyWhile callback running, one 'initialize' message
\* with the record then in the store to its own channel and nothing to any
\* other channel; no channel ever has more than one 'initialize', and a
\* channel with listeners has exactly one.
InitializeCounts ==
  \A w \in SessIds :
    /\ CountType(inbox[w], "initialize") <= 1
    /\ w \in listening => CountType(inbox[w], "initialize") = 1

InitializeOnceStep ==
  \A i \in Tasks :
    (tasks[i].op = "connect" /\ Completes(i) /\ response'.status # 500)
    => LET w == tasks[i].ws
           m == inbox'[w][Len(inbox'[w])]
       IN  /\ response'.status = 101
           /\ ~GateHeld
           /\ Len(inbox'[w]) = Len(inbox[w]) + 1
           /\ m.type = "initialize" /\ ~m.gate /\ m.roomData = store
           /\ \A k \in DOMAIN inbox[w] :
                inbox'[w][k] = inbox[w][k] /\ inbox[w][k].type # "initialize"
           /\ \A v \in SessIds \ {w} : inbox'[v] = inbox[v]
           /\ store' = store

InitializeOnce == [][InitializeOnceStep /\ InitializeCounts']_vars

\* C21 witness: on a room that was never created, the second channel open
\* has returned while the first channel was still registered.
SecondChannelInitialized ==
  /\ ~Active
  /\ response.op = "connect" /\ response.status = 101
  /\ Len(sessions) = 2 /\ listening = {1, 2}
  /\ CountType(inbox[2], "initialize") = 1

\* C22: a channel open on an Active room. The session is registered when the
\* callback starts; the callback adds the name to users if it is absent,
\* sets connectedUsers[name] to true, leaves the rest of the record alone,
\* persists once and, still inside the callback, sends exactly one
\* userConnectionStatus broadcast with isConnected true and the record it
\* wrote.
ConnectStep ==
  \A i \in Tasks :
    LET name == tasks[i].name
        n == Len(store.users)
    IN
    /\ (tasks'[i].op = "connect" /\ tasks'[i].pc # "idle")
         => \E k \in DOMAIN sessions' :
              sessions'[k] = [ws |-> tasks'[i].ws, userName |-> tasks'[i].name]
    /\ (tasks[i].op = "connect" /\ tasks[i].pc = "run"
           /\ tasks'[i].pc = "bcast" /\ Active)
         => /\ Includes(store.users, name) => store'.users = store.users
            /\ ~Includes(store.users, name) => store'.users = Append(store.users, name)
            /\ IsConnected(store'.connectedUsers, name)
            /\ \A u \in DOMAIN store.connectedUsers \ {name} :
                 /\ u \in DOMAIN store'.connectedUsers
                 /\ store'.connectedUsers[u] = store.connectedUsers[u]
            /\ store'.key = store.key
            /\ store'.moderator = store.moderator
            /\ store'.settings = store.settings
            /\ inbox' = inbox
    /\ (tasks[i].op = "connect" /\ tasks[i].pc = "bcast"
           /\ tasks'[i] # tasks[i] /\ Active)
         => /\ tasks'[i].pc = "post"
            /\ tasks'[i].nput = 1
            /\ Len(tasks'[i].sent) = 1
            /\ tasks'[i].sent[1].type = "userConnectionStatus"
            /\ tasks'[i].sent[1].name = name
            /\ tasks'[i].sent[1].isConnected
            /\ tasks'[i].sent[1].gate
            /\ tasks'[i].sent[1].roomData = store
            /\ store' = store
    /\ (tasks[i].op = "connect" /\ tasks[i].pc = "post" /\ Completes(i))
         => response'.nput = 1 /\ Len(response'.sent) = 1

ConnectOnActive == [][ConnectStep]_vars

\* C22 witness: in an Active room a user who already had a live session has
\* opened a second channel and its handler has returned.
SecondDeviceConnected ==
  /\ Active
  /\ response.op = "connect" /\ response.status = 101
  /\ Len(sessions) = 2
  /\ sessions[1].userName = sessions[2].userName
  /\ response.name = sessions[2].userName
  /\ IsConnected(store.connectedUsers, response.name)

\* the handler in slot i has written a record it has not broadcast yet
OwesBroadcast(t) == t.pc \in {"bcast", "bcast2"}

\* C23: broadcasts follow the order of the writes. When a handler writes
\* the store, no other handler still owes the broadcast of an earlier
\* write; when a handler broadcasts, the record in the store is the one it
\* wrote and the message carries it.
BroadcastOrderStep ==
  \A i \in Tasks :
    /\ (store' # store /\ tasks'[i].nput = tasks[i].nput + 1)
         => \A j \in Tasks \ {i} : ~OwesBroadcast(tasks[j])
    /\ Broadcasts(i)
         => LET sent == IF Completes(i) THEN response'.sent ELSE tasks'[i].sent
            IN  /\ Len(sent) = Len(tasks[i].sent) + 1
                /\ sent[Len(sent)].roomData = store
                /\ tasks[i].roomData = store
                /\ \A j \in Tasks \ {i} : ~OwesBroadcast(tasks[j])

BroadcastOrder == [][BroadcastOrderStep]_vars

\* C23 witness: a channel has received the broadcasts of two later writes,
\* the older record first and the record now in the store last.
TwoBroadcastsInOrder ==
  \E w \in SessIds :
    LET box == inbox[w]
        n == Len(box)
    IN  /\ n >= 3
        /\ box[n - 1].type # "initialize" /\ box[n].type # "initialize"
        /\ box[n - 1].type # "error" /\ box[n].type # "error"
        /\ box[n].roomData = store
        /\ box[n - 1].roomData # store
        /\ Quiescent

\* the message listener of some channel handles a payload that does not
\* parse in this step
MalformedHandled ==
  /\ response'.op = "malformed"
  /\ tasks' = tasks
  /\ broken' = broken
  /\ nops' # nops

\* C24: a payload that does not parse gets one 'error' reply, on the channel
\* it came from and on no other; the record is unchanged and nothing is
\* broadcast. The only other step that sends an 'error' message is an
\* updateSettings whose storage.put rejects.
MalformedReplyStep ==
  /\ MalformedHandled =>
       /\ \E w \in SessIds :
            /\ Registered(w) /\ SessionUser(w) = response'.name
            /\ Len(inbox'[w]) = Len(inbox[w]) + 1
            /\ inbox'[w][Len(inbox'[w])].type = "error"
            /\ \A k \in DOMAIN inbox[w] : inbox'[w][k] = inbox[w][k]
            /\ \A v \in SessIds \ {w} : inbox'[v] = inbox[v]
       /\ store' = store
       /\ sessions' = sessions
       /\ response'.sent = <<>> /\ response'.nput = 0
  /\ (\E w \in SessIds :
        CountType(inbox'[w], "error") # CountType(inbox[w], "error"))
       => \/ MalformedHandled
          \/ \E i \in Tasks :
               /\ tasks[i].op = "updateSettings" /\ Completes(i)
               /\ response'.status = 500

MalformedReply == [][MalformedReplyStep]_vars

\* C24 witness: of two channels with listeners, one has been sent an
\* 'error' message and the other none.
ErrorToOffenderOnly ==
  /\ response.op = "malformed"
  /\ listening = {1, 2}
  /\ \E w, v \in SessIds :
       /\ CountType(inbox[w], "error") = 1
       /\ CountType(inbox[v], "error") = 0

\* nobody in users has a true connectedUsers entry
NobodyConnected(roomData) ==
  \A u \in Range(roomData.users) : ~IsConnected(roomData.connectedUsers, u)

\* C25: no successor. When the close of the moderator's last session has
\* been handled and nobody in users is connected, the moderator is the one
\* it was, no newModerator message was sent and the handler returned
\* without error after its single put.
NoSuccessorStep ==
  \A i \in Tasks :
    (/\ Completes(i) /\ tasks[i].op = "close"
     /\ tasks[i].read.moderator = tasks[i].name
     /\ tasks[i].nput >= 1
     /\ NobodyConnected(tasks[i].roomData))
    => /\ store'.moderator = tasks[i].read.moderator
       /\ store'.users = tasks[i].read.users
       /\ ~IsConnected(store'.connectedUsers, tasks[i].name)
       /\ \A k \in DOMAIN response'.sent :
            response'.sent[k].type # "newModerator"
       /\ CountType(response'.sent, "userConnectionStatus") = 1
       /\ response'.status = 0
       /\ response'.nput = 1

NoSuccessor == [][NoSuccessorStep]_vars

\* C25 witness: the moderator's last session has closed in a room with
\* another user, who is not connected; the moderator is still the same.
ModeratorKeptOffline ==
  /\ Quiescent /\ Active
  /\ response.op = "close" /\ response.nput = 1
  /\ response.name = store.moderator
  /\ Len(store.users) >= 2
  /\ NobodyConnected(store)

\* C26: the gate is never held forever. Whenever a callback of
\* blockConcurrencyWhile is running, also one whose storage.get or
\* storage.put does not settle, a later state has no callback running, so
\* that the requests and events waiting at the gate get their turn.
GateReleased == GateHeld ~> ~GateHeld

\* C27: an uninitialized room keeps an empty record. While the stored key
\* is empty nothing but /initialize changes the record: users,
\* connectedUsers and moderator stay empty, so a record with users has a
\* key.
UninitializedUntouched ==
  store.key = "" =>
    /\ store.users = <<>>
    /\ store.connectedUsers = EmptyMap
    /\ store.moderator = ""

\* C28: sessions are members. In an initialized room with no handler
\* running, every user name with a registered session whose channel open
\* was handled to its end is in users and its connectedUsers entry is
\* true.
SessionsAreMembers ==
  (Quiescent /\ Active) =>
    \A k \in DOMAIN sessions :
      sessions[k].ws \in listening =>
        /\ Includes(store.users, sessions[k].userName)
        /\ IsConnected(store.connectedUsers, sessions[k].userName)

\* the close listener of the moderator's last session, past its first put
InFailover(t) ==
  /\ t.op = "close"
  /\ t.pc \in {"bcast", "moderator", "bcast2"}
  /\ t.name = t.read.moderator

\* C29: the failover is one uninterrupted sequence. The close listener of
\* the moderator's last session first stores the record with the old
\* moderator's entry false, then broadcasts userConnectionStatus, then
\* stores the record with the first connected user as moderator, then
\* broadcasts newModerator with that name; a session that is sent
\* newModerator was sent the userConnectionStatus just before it; and
\* between the first put and the end no other handler moves, writes or
\* sends.
FailoverSequenceStep ==
  \A i \in Tasks :
    /\ (Running(i, "close") /\ tasks'[i].pc = "bcast")
       => /\ ~IsConnected(store'.connectedUsers, tasks[i].name)
          /\ store'.moderator = tasks[i].read.moderator
    /\ InFailover(tasks[i]) =>
         /\ \A j \in Tasks \ {i} : tasks'[j] = tasks[j]
         /\ (store' # store \/ inbox' # inbox) => tasks'[i] # tasks[i]
         /\ UNCHANGED sessions
    /\ (InFailover(tasks[i]) /\ tasks[i].pc = "moderator"
          /\ tasks'[i].pc = "bcast2")
       => /\ tasks[i].nput = 1
          /\ Len(tasks[i].sent) = 1
          /\ tasks[i].sent[1].type = "userConnectionStatus"
          /\ tasks[i].sent[1].name = tasks[i].name
          /\ ~tasks[i].sent[1].isConnected
          /\ store'.moderator = Candidates(store)[1]
          /\ store' = [store EXCEPT !.moderator = store'.moderator]
    /\ (InFailover(tasks[i]) /\ tasks[i].pc = "bcast2" /\ Completes(i))
       => /\ response'.nput = 2
          /\ Len(response'.sent) = 2
          /\ response'.sent[1] = tasks[i].sent[1]
          /\ response'.sent[2].type = "newModerator"
          /\ response'.sent[2].name = store.moderator
          /\ response'.sent[2].roomData = store
          /\ store' = store
          /\ \A w \in SessIds :
               inbox'[w] # inbox[w] =>
                 /\ inbox'[w] = Append(inbox[w], response'.sent[2])
                 /\ Len(inbox[w]) >= 1
                 /\ inbox[w][Len(inbox[w])] = tasks[i].sent[1]

FailoverSequence == [][FailoverSequenceStep]_vars

\* a failover has ended and a channel was sent both of its messages
FailoverBroadcast ==
  /\ response.op = "close" /\ response.nput = 2 /\ response.status = 0
  /\ \E w \in SessIds :
       /\ Registered(w)
       /\ Len(inbox[w]) >= 2
       /\ inbox[w][Len(inbox[w])].type = "newModerator"
       /\ inbox[w][Len(inbox[w]) - 1].type = "userConnectionStatus"

\* C30: moderator changes in two places only. A step that changes the
\* stored moderator is the put of an /initialize on a room without a key or
\* the second put of the close listener of the moderator, who has no
\* session left; every other step, a channel open of a former moderator
\* among them, leaves it alone.
ModeratorFrameStep ==
  store'.moderator # store.moderator =>
    \E i \in Tasks :
      \/ /\ Running(i, "initialize") /\ Completes(i)
         /\ response'.status = 200 /\ response'.nput = 1
         /\ store.key = ""
         /\ store'.moderator = tasks[i].name
      \/ /\ tasks[i].op = "close" /\ tasks[i].pc = "moderator"
         /\ tasks'[i].nput = 2
         /\ tasks[i].name = store.moderator
         /\ ~StillConnected(sessions, tasks[i].name)
         /\ store'.moderator = Candidates(store)[1]

ModeratorFrame == [][ModeratorFrameStep]_vars

\* the user who created the room lost the role in a failover, has opened a
\* channel again and is connected, and the moderator is still the successor
FormerModeratorBack ==
  /\ Quiescent /\ Active
  /\ response.op = "connect" /\ response.status = 101
  /\ response.name = store.users[1]
  /\ store.moderator # response.name
  /\ StillConnected(sessions, response.name)
  /\ IsConnected(store.connectedUsers, response.name)
  /\ IsConnected(store.connectedUsers, store.moderator)

\* C31: updateSettings on a channel is authorized by the moderator stored
\* when the message is handled. When storage answers, a message from the
\* user who is the moderator now writes the merged settings and is
\* broadcast as settingsUpdated with the record written; a message from
\* anybody else, a former moderator included, is dropped.
ModeratorAuthorityStep ==
  \A i \in Tasks :
    /\ (/\ Running(i, "updateSettings")
        /\ tasks'[i] # tasks[i] /\ tasks'[i].pc # "hung"
        /\ ~(Completes(i) /\ response'.status = 500))
       => IF tasks[i].name = store.moderator
            THEN /\ tasks'[i].pc = "bcast"
                 /\ store' = [store EXCEPT
                                !.settings = MergeSettings(@, tasks[i].arg)]
            ELSE /\ Completes(i)
                 /\ store' = store /\ inbox' = inbox
                 /\ response'.sent = <<>> /\ response'.nput = 0
    /\ (tasks[i].op = "updateSettings" /\ tasks[i].pc = "bcast"
          /\ tasks'[i] # tasks[i])
       => /\ Completes(i)
          /\ Len(response'.sent) = 1
          /\ response'.sent[1].type = "settingsUpdated"
          /\ response'.sent[1].roomData = store
          /\ store' = store

ModeratorAuthority == [][ModeratorAuthorityStep]_vars

\* the successor of a failover has updated the settings over the channel on
\* which it was told it is the moderator
SuccessorUpdated ==
  /\ response.op = "updateSettings" /\ response.nput = 1
  /\ response.name = store.moderator
  /\ store.users[1] # store.moderator
  /\ \E w \in SessIds :
       /\ Registered(w) /\ SessionUser(w) = response.name
       /\ \E k, m \in DOMAIN inbox[w] :
            /\ k < m
            /\ inbox[w][k].type = "newModerator"
            /\ inbox[w][k].name = response.name
            /\ inbox[w][m] = response.sent[1]

\* the former moderator has come back after the failover and its
\* updateSettings message was dropped
FormerModeratorDropped ==
  /\ response.op = "updateSettings" /\ response.nput = 0
  /\ response.status = 0
  /\ Active /\ response.name = store.users[1]
  /\ store.moderator # response.name
  /\ StillConnected(sessions, response.name)

\* C32: settings change in three places only. A step that changes the
\* stored settings is the put of PUT /settings on an initialized room or of
\* an updateSettings message, in both cases from the user who is the
\* moderator and with the merged settings as result, or the put of an
\* /initialize, which empties them. /join, channel opens and closes, the
\* failover, GET /settings and refused or dropped updates leave them alone.
SettingsFrameStep ==
  store'.settings # store.settings =>
    \E i \in Tasks :
      \/ /\ Running(i, "initialize")
         /\ store.key = ""
         /\ store'.settings = EmptyMap
      \/ /\ tasks[i].pc = "run" /\ tasks'[i].pc = "bcast"
         /\ \/ tasks[i].op = "putSettings" /\ store.key # ""
            \/ tasks[i].op = "updateSettings"
         /\ tasks[i].name = store.moderator
         /\ store'.settings = MergeSettings(store.settings, tasks[i].arg)
         /\ store' = [store EXCEPT !.settings = store'.settings]

SettingsFrame == [][SettingsFrameStep]_vars

\* the moderator set a setting over its channel, then its last session
\* closed and the failover ran: the setting is still there
SettingsSurviveFailover ==
  /\ Quiescent /\ Active
  /\ response.op = "close" /\ response.nput = 2
  /\ store.settings # EmptyMap
  /\ store.moderator # response.name

\* users is the beginning of later
IsPrefix(users, later) ==
  /\ Len(users) <= Len(later)
  /\ \A k \in DOMAIN users : later[k] = users[k]

\* C33: an initialized room stays initialized and its users only grow. In
\* every step from a state whose stored key is not empty the key stays the
\* same and the stored users are the beginning of the users stored after
\* the step.
AppendOnlyStep ==
  store.key # "" =>
    /\ store'.key = store.key
    /\ IsPrefix(store.users, store'.users)

AppendOnly == [][AppendOnlyStep]_vars

\* in an initialized room with several users one of them has closed its
\* last session and is still in users, not connected
ClosedUserKept ==
  /\ Quiescent /\ Active
  /\ response.op = "close" /\ response.nput >= 1
  /\ Len(store.users) >= 2
  /\ Includes(store.users, response.name)
  /\ ~IsConnected(store.connectedUsers, response.name)

\* the message listener of some channel handles a message of another type
\* than 'updateSettings' in this step
OtherHandled ==
  /\ response'.op = "other"
  /\ tasks' = tasks
  /\ broken' = broken
  /\ nops' # nops

\* C34: a message that parses and whose type is not 'updateSettings' is
\* ignored: the record and the sessions stay as they are, no callback is
\* started, nothing is broadcast and no channel, the sender's included, is
\* sent anything.
OtherIgnoredStep ==
  OtherHandled =>
    /\ store' = store
    /\ sessions' = sessions /\ listening' = listening
    /\ inbox' = inbox
    /\ response'.sent = <<>> /\ response'.nput = 0
    /\ response'.status = 0

OtherIgnored == [][OtherIgnoredStep]_vars

\* a message of another type was handled in an initialized room with two
\* channels, none of which has been sent an 'error'
OtherTypeHandled ==
  /\ response.op = "other"
  /\ Active
  /\ listening = {1, 2}
  /\ \A w \in SessIds : CountType(inbox[w], "error") = 0

\* C35: the client's reconnection is bounded. Once more than
\* MAX_RECONNECT_ATTEMPTS attempts in a row have closed abnormally without
\* opening, no further attempt is pending or under way and 'disconnected'
\* has been fired.
ReconnectBounded ==
  failed > MAX_RECONNECT_ATTEMPTS =>
    /\ timer = 0
    /\ activeSocket # "connecting"
    /\ disconnected

\* C9: connectedUsers reflects live sessions. With no operation in progress,
\* after some handler has returned, connectedUsers[U] is true exactly when U
\* has a registered session.
ConnectedIffSession ==
  (Quiescent /\ response.op # "none") =>
    \A u \in Names :
      IsConnected(store.connectedUsers, u) <=> StillConnected(sessions, u)

\* C10: no send to a session is made while a blockConcurrencyWhile callback
\* is running.
NoSendInsideGate ==
  \A w \in SessIds : \A k \in DOMAIN inbox[w] : ~inbox[w][k].gate

====
